---- MODULE Spec2Model ----
(***************************************************************************)
(* The transcription handler of packages/sample/emails/__main__.py:        *)
(* module load (the service client), and main(args) with the two helpers   *)
(* it calls, convert_audio_to_wav and transcribe_audio.  Two invocations   *)
(* of main run in one process, interleaved statement group by statement    *)
(* group; they share the module-level client and the temporary directory.  *)
(* The collaborators (HTTP GET, the decoder/encoder, the transcription     *)
(* service) are the environment: each call either returns or raises.       *)
(***************************************************************************)
EXTENDS Integers, Sequences, FiniteSets, TLC

\* ------------------------------------------------------------------ bounds

\* Longest audio_data string an invocation is given.
MaxB64Len == 4

\* The invocations of main that run in the process.
Procs == {1, 2}

\* ------------------------------------------------------- values and inputs

\* Characters audio_data is made of: an alphabet character (value 63), the
\* pad character, and a character outside the base64 alphabet.
B64Chars == {"/", "=", "!"}

RECURSIVE SeqsUpTo(_, _)
SeqsUpTo(S, n) ==
    IF n = 0 THEN {<<>>}
    ELSE LET shorter == SeqsUpTo(S, n - 1)
         IN  shorter \cup {Append(s, c) : s \in {t \in shorter : Len(t) = n - 1}, c \in S}

AudioDataInputs == SeqsUpTo(B64Chars, MaxB64Len)

AudioUrlInputs == {"http://host/clip"}

\* Filenames as character sequences: "", "a.MP3", "b.xyz", ".ogg".
FilenameInputs ==
    { <<>>,
      <<"a", ".", "M", "P", "3">>,
      <<"b", ".", "x", "y", "z">>,
      <<".", "o", "g", "g">> }

\* Status codes the remote host answers with.
StatusCodes == {200, 204, 404}

EmptyDict == [k \in {} |-> k]

\* A request is a mapping; a key that is not given is not in its domain.
\* These are the requests without their audio_url, and what audio_url adds.
RequestsLessUrl ==
    { d @@ f :
        d \in {EmptyDict} \cup {[audio_data |-> s] : s \in AudioDataInputs},
        f \in {EmptyDict} \cup {[filename |-> n] : n \in FilenameInputs} }

UrlOptions == {EmptyDict} \cup {[audio_url |-> x] : x \in AudioUrlInputs}

\* args.get(key, default)
Get(a, key, default) == IF key \in DOMAIN a THEN a[key] ELSE default

\* An exception: its class and its message; str(e) is the message.
Exc(cls, msg) == [cls |-> cls, msg |-> msg]

Str(e) == e.msg

\* ------------------------------------------------- library functions used

\* base64.b64decode(s) with its default validate=False, i.e. CPython's
\* binascii.a2b_base64 in non-strict mode: characters outside the alphabet
\* are skipped, a pad that completes a quad ends the input, an incomplete
\* quad at the end raises binascii.Error.
B64Table == [c \in {"A", "/"} |-> IF c = "A" THEN 0 ELSE 63]

RECURSIVE a2b_base64(_, _, _, _, _, _)
a2b_base64(s, i, quad_pos, leftchar, pads, out) ==
    IF i > Len(s) THEN
        IF quad_pos = 0 THEN [ok |-> TRUE, bytes |-> out]
        ELSE [ok |-> FALSE,
              exc |-> Exc("binascii.Error",
                          IF quad_pos = 1
                          THEN "Invalid base64-encoded string"
                          ELSE "Incorrect padding")]
    ELSE IF s[i] = "=" THEN
        IF quad_pos >= 2 /\ quad_pos + pads + 1 >= 4
        THEN [ok |-> TRUE, bytes |-> out]
        ELSE a2b_base64(s, i + 1, quad_pos, leftchar,
                        IF quad_pos >= 2 THEN pads + 1 ELSE pads, out)
    ELSE IF s[i] \notin DOMAIN B64Table THEN
        a2b_base64(s, i + 1, quad_pos, leftchar, pads, out)
    ELSE LET v == B64Table[s[i]] IN
        CASE quad_pos = 0 -> a2b_base64(s, i + 1, 1, v, 0, out)
          [] quad_pos = 1 -> a2b_base64(s, i + 1, 2, v % 16, 0,
                                 Append(out, (leftchar * 4 + v \div 16) % 256))
          [] quad_pos = 2 -> a2b_base64(s, i + 1, 3, v % 4, 0,
                                 Append(out, (leftchar * 16 + v \div 4) % 256))
          [] quad_pos = 3 -> a2b_base64(s, i + 1, 0, 0, 0,
                                 Append(out, (leftchar * 64 + v) % 256))

b64decode(s) == a2b_base64(s, 1, 0, 0, 0, <<>>)

\* Index of the last occurrence of c in s, 0 when there is none (str.rfind,
\* shifted by one).
RFind(s, c) ==
    LET hits == {i \in 1..Len(s) : s[i] = c}
    IN  IF hits = {} THEN 0 ELSE CHOOSE i \in hits : \A j \in hits : j <= i

\* os.path.splitext(p)[1]: the text from the last dot on, when that dot comes
\* after the last separator and after a character that is not a dot.
SplitExt(p) ==
    LET sepIndex == RFind(p, "/")
        dotIndex == RFind(p, ".")
    IN  IF dotIndex > sepIndex
           /\ \E k \in (sepIndex + 1)..(dotIndex - 1) : p[k] # "."
        THEN SubSeq(p, dotIndex, Len(p))
        ELSE <<>>

\* str.lower(), character by character.
LowerTable == [c \in {"M", "P", "O", "G"} |->
                 CASE c = "M" -> "m" [] c = "P" -> "p"
                   [] c = "O" -> "o" [] c = "G" -> "g"]

Lower(s) == [i \in 1..Len(s) |->
               IF s[i] \in DOMAIN LowerTable THEN LowerTable[s[i]] ELSE s[i]]

\* str.replace('.', '')
StripDots(s) == SelectSeq(s, LAMBDA c : c # ".")

\* --------------------------------------------------- convert_audio_to_wav

AllowedFormats ==
    { <<"m", "p", "3">>, <<"w", "a", "v">>, <<"f", "l", "a", "c">>,
      <<"o", "g", "g">>, <<"a", "a", "c">>, <<"m", "4", "a">>,
      <<"w", "m", "a">> }

\* format=None of AudioSegment.from_file, and the input_format of a call
\* without a filename; like '', it is falsy.
NoFormat == <<>>

\* A variant that keeps the extension's case.
InputFormatNoLower(original_filename) ==
    IF original_filename # <<>>
    THEN StripDots(SplitExt(original_filename))
    ELSE NoFormat

\* input_format: the lower-cased extension without its dot.
InputFormat(original_filename) ==
    IF original_filename # <<>>
    THEN StripDots(Lower(SplitExt(original_filename)))
    ELSE NoFormat

\* The format the first AudioSegment.from_file call is given.
FirstFormat(original_filename) ==
    LET input_format == InputFormat(original_filename)
    IN  IF input_format # <<>> /\ input_format \in AllowedFormats
        THEN input_format
        ELSE NoFormat

\* The exception a failed AudioSegment.from_file raises.
DecodeError(format) ==
    Exc("CouldntDecodeError",
        IF format = NoFormat THEN "Decoding failed (format detected)"
        ELSE "Decoding failed (format given)")

EncodeError == Exc("CouldntEncodeError", "Encoding failed")

\* The exported audio: WAV, pcm_s16le, 16000 Hz, one channel, two bytes a
\* sample, of the decoded input.
ExportedWav(audio_data) ==
    [container |-> "wav", codec |-> "pcm_s16le", frame_rate |-> 16000,
     channels |-> 1, sample_width |-> 2, of |-> audio_data]

\* A variant that raises an exception of its own in place of e.
ConvertExceptWraps(e) == Exc("Exception", "Error converting audio")

\* except Exception as e: print(...); raise
ConvertExcept(e) == e

\* ------------------------------------------------------- transcribe_audio

ServiceError == Exc("APIError", "Transcription request failed")

\* What client.audio.transcriptions.create returns: an object of the
\* service's, with or without a text attribute.
ServiceResults ==
    { [text |-> "hello", segments |-> "s"], [segments |-> "s"] }

\* except Exception as e: print(...); raise
TranscribeExcept(e) == e

\* ------------------------------------------------------------------- main

DefaultFilename == <<"a", "u", "d", "i", "o", ".", "w", "a", "v">>

HasNoSource(a) == "audio_data" \notin DOMAIN a /\ "audio_url" \notin DOMAIN a

\* A variant that prefers audio_url.
UsesInlineUnlessUrl(a) == "audio_data" \in DOMAIN a /\ "audio_url" \notin DOMAIN a

\* if 'audio_data' in args: ... elif 'audio_url' in args: ...
UsesInline(a) == "audio_data" \in DOMAIN a

\* A variant that answers 500.
MissingSourceResponse500 ==
    [statusCode |-> 500,
     body |-> [error |-> <<"Missing required parameter: either audio_data or audio_url">>]]

\* The first return of main.  A message is the sequence of the text fragments
\* it is put together from.
MissingSourceResponse ==
    [statusCode |-> 400,
     body |-> [error |-> <<"Missing required parameter: either audio_data or audio_url">>]]

\* f'{response.status_code}'
FormatCode(code) ==
    CASE code = 200 -> "200" [] code = 204 -> "204" [] code = 404 -> "404"

\* A variant that lets every status below 500 pass.
DownloadFailedServerOnly(code) == code >= 500

\* response.status_code != 200
DownloadFailed(code) == code # 200

DownloadFailedResponse(code) ==
    [statusCode |-> 400,
     body |-> [error |-> <<"Failed to download audio from URL. Status code: ",
                           FormatCode(code)>>]]

\* What requests.get(...).content holds.
RemoteContent == <<82, 73, 70, 70>>

TransportError == Exc("ConnectionError", "Connection refused")

\* The classes of the exceptions the collaborators raise; all derive from
\* Exception.
ExceptionClasses ==
    { "binascii.Error", "ConnectionError", "CouldntDecodeError",
      "CouldntEncodeError", "APIError", "AttributeError", "Exception" }

\* A variant that lets the decoder's exception through.
CatchesAllButDecode(e) == e.cls \in ExceptionClasses \ {"CouldntDecodeError"}

\* except Exception as e:
Catches(e) == e.cls \in ExceptionClasses

\* A variant that answers 400.
ErrorResponse400(e) == [statusCode |-> 400, body |-> [error |-> <<Str(e)>>]]

\* return {'statusCode': 500, 'body': {'error': str(e)}}
ErrorResponse(e) == [statusCode |-> 500, body |-> [error |-> <<Str(e)>>]]

\* The last return of the try block.
SuccessResponse(transcription) ==
    [statusCode |-> 200,
     body |-> [transcription_text |-> transcription.text,
               full_transcription |-> transcription]]

\* ------------------------------------------------------------------ state

VARIABLES
    loaded,        \* "no", "yes", "failed": the module's import
    client,        \* the module-level client: 0 before it is set, else its handle
    constructions, \* Groq() calls made in the process
    args,          \* args[p]: the request invocation p is given
    pc,            \* pc[p]: where invocation p stands
    audio,         \* audio[p]: audio_data of main, once resolved
    attempts,      \* attempts[p]: the AudioSegment.from_file calls made, in order
    wav,           \* wav[p]: wav_data of main
    transcription, \* transcription[p]: what transcribe_audio returned
    resp,          \* resp[p]: what main returned
    fs,            \* the temporary files that exist
    created,       \* created[p]: the temporary files invocation p created
    outcomes,      \* outcomes[p]: what each call to a collaborator answered, in order
    calls,         \* calls[p]: the client handle of each transcription call made
    trace,         \* trace[p]: the stages entered and left, in order
    failedAt       \* failedAt[p]: the stage that ended the invocation, or "none"

vars == <<loaded, client, constructions, args, pc, audio, attempts, wav,
          transcription, resp, fs, created, outcomes, calls, trace, failedAt>>

\* One answer of a collaborator: the call, and what it returned.  A get
\* answers a status code, NoStatus when it raised; from_file and export
\* answer whether they returned; create answers the object it returned,
\* NoObject when it raised.
Answer(call, result) == [call |-> call, result |-> result]

NoStatus == 0

NoObject == [raised |-> TRUE]

TempIn(p) == <<p, "temp_in">>

TempWav(p) == <<p, "temp_file">>

\* The invocations are given the same audio_data and filename, and each its
\* own audio_url, or none.
Init ==
    /\ loaded = "no"
    /\ client = 0
    /\ constructions = 0
    /\ \E base \in RequestsLessUrl, url \in [Procs -> UrlOptions] :
          args = [p \in Procs |-> base @@ url[p]]
    /\ pc = [p \in Procs |-> "start"]
    /\ audio = [p \in Procs |-> <<>>]
    /\ attempts = [p \in Procs |-> <<>>]
    /\ wav = [p \in Procs |-> <<>>]
    /\ transcription = [p \in Procs |-> <<>>]
    /\ resp = [p \in Procs |-> <<>>]
    /\ fs = {}
    /\ created = [p \in Procs |-> {}]
    /\ outcomes = [p \in Procs |-> <<>>]
    /\ calls = [p \in Procs |-> <<>>]
    /\ trace = [p \in Procs |-> <<>>]
    /\ failedAt = [p \in Procs |-> "none"]

\* ------------------------------------------------------------ module load

\* A variant of the import that constructs no client.
ImportLeavesClientUnset ==
    /\ loaded = "no"
    /\ loaded' = "yes"
    /\ UNCHANGED <<client, constructions, args, pc, audio, attempts, wav,
                   transcription, resp, fs, created, outcomes, calls, trace,
                   failedAt>>

\* client = Groq(), run when the module is imported; no other statement
\* assigns client.
Import ==
    /\ loaded = "no"
    /\ \/ /\ loaded' = "yes"
          /\ constructions' = constructions + 1
          /\ client' = constructions + 1
       \/ \* Groq() raises (no credential in the environment): the import fails
          /\ loaded' = "failed"
          /\ UNCHANGED <<client, constructions>>
    /\ UNCHANGED <<args, pc, audio, attempts, wav, transcription, resp, fs,
                   created, outcomes, calls, trace, failedAt>>

\* ------------------------------------------------------------------- main

\* An exception e reaches main's try at stage: the except clause answers it,
\* or it leaves main.
Raised(p, e, stage) ==
    /\ failedAt' = [failedAt EXCEPT ![p] = stage]
    /\ IF Catches(e)
       THEN /\ pc' = [pc EXCEPT ![p] = "done"]
            /\ resp' = [resp EXCEPT ![p] = ErrorResponse(e)]
       ELSE /\ pc' = [pc EXCEPT ![p] = "raised"]
            /\ UNCHANGED resp

\* Neither key is given: the first return.
MissingSource(p) ==
    /\ loaded = "yes"
    /\ pc[p] = "start"
    /\ HasNoSource(args[p])
    /\ pc' = [pc EXCEPT ![p] = "done"]
    /\ resp' = [resp EXCEPT ![p] = MissingSourceResponse]
    /\ trace' = [trace EXCEPT ![p] = <<"resolve">>]
    /\ failedAt' = [failedAt EXCEPT ![p] = "resolve"]
    /\ UNCHANGED <<loaded, client, constructions, args, audio, attempts, wav,
                   transcription, fs, created, outcomes, calls>>

\* if 'audio_data' in args: audio_data = base64.b64decode(args['audio_data'])
DecodeData(p) ==
    /\ loaded = "yes"
    /\ pc[p] = "start"
    /\ ~HasNoSource(args[p])
    /\ UsesInline(args[p])
    /\ LET r == b64decode(args[p]["audio_data"])
       IN  IF r.ok
           THEN /\ audio' = [audio EXCEPT ![p] = r.bytes]
                /\ pc' = [pc EXCEPT ![p] = "convert"]
                /\ trace' = [trace EXCEPT ![p] = <<"resolve", "resolved">>]
                /\ UNCHANGED <<resp, failedAt>>
           ELSE /\ Raised(p, r.exc, "resolve")
                /\ trace' = [trace EXCEPT ![p] = <<"resolve">>]
                /\ UNCHANGED audio
    /\ UNCHANGED <<loaded, client, constructions, args, attempts, wav,
                   transcription, fs, created, outcomes, calls>>

\* elif 'audio_url' in args: response = requests.get(args['audio_url']) ...
FetchUrl(p) ==
    /\ loaded = "yes"
    /\ pc[p] = "start"
    /\ ~HasNoSource(args[p])
    /\ ~UsesInline(args[p])
    /\ "audio_url" \in DOMAIN args[p]
    /\ \/ \* requests.get raises
          /\ outcomes' = [outcomes EXCEPT ![p] = Append(@, Answer("get", NoStatus))]
          /\ Raised(p, TransportError, "resolve")
          /\ trace' = [trace EXCEPT ![p] = <<"resolve">>]
          /\ UNCHANGED audio
       \/ \E code \in StatusCodes :
             /\ outcomes' = [outcomes EXCEPT ![p] = Append(@, Answer("get", code))]
             /\ IF DownloadFailed(code)
                THEN /\ pc' = [pc EXCEPT ![p] = "done"]
                     /\ resp' = [resp EXCEPT ![p] = DownloadFailedResponse(code)]
                     /\ trace' = [trace EXCEPT ![p] = <<"resolve">>]
                     /\ failedAt' = [failedAt EXCEPT ![p] = "resolve"]
                     /\ UNCHANGED audio
                ELSE /\ audio' = [audio EXCEPT ![p] = RemoteContent]
                     /\ pc' = [pc EXCEPT ![p] = "convert"]
                     /\ trace' = [trace EXCEPT ![p] = <<"resolve", "resolved">>]
                     /\ UNCHANGED <<resp, failedAt>>
    /\ UNCHANGED <<loaded, client, constructions, args, attempts, wav,
                   transcription, fs, created, calls>>

Filename(p) == Get(args[p], "filename", DefaultFilename)

\* wav_data = convert_audio_to_wav(audio_data, filename), up to the end of
\* its inner try: the input is written to a temporary file that outlives its
\* with block (delete=False), and AudioSegment.from_file is called with the
\* format of the extension, or with none.  It returns or raises; the inner
\* except prints and goes on.
LoadFirst(p) ==
    /\ loaded = "yes"
    /\ pc[p] = "convert"
    /\ fs' = fs \cup {TempIn(p)}
    /\ created' = [created EXCEPT ![p] = @ \cup {TempIn(p)}]
    /\ trace' = [trace EXCEPT ![p] = Append(@, "normalize")]
    /\ \E ok \in BOOLEAN :
          /\ attempts' = [attempts EXCEPT ![p] =
                            Append(@, [format |-> FirstFormat(Filename(p)), ok |-> ok])]
          /\ outcomes' = [outcomes EXCEPT ![p] = Append(@, Answer("from_file", ok))]
          /\ pc' = [pc EXCEPT ![p] = IF ok THEN "export" ELSE "reload"]
    /\ UNCHANGED <<loaded, client, constructions, args, audio, wav,
                   transcription, resp, calls, failedAt>>

\* The inner except: AudioSegment.from_file again, without a format.  When it
\* raises, the outer except re-raises and main's except answers; the unlink
\* is not reached.
LoadAgain(p) ==
    /\ loaded = "yes"
    /\ pc[p] = "reload"
    /\ \E ok \in BOOLEAN :
          /\ attempts' = [attempts EXCEPT ![p] =
                            Append(@, [format |-> NoFormat, ok |-> ok])]
          /\ outcomes' = [outcomes EXCEPT ![p] = Append(@, Answer("from_file", ok))]
          /\ IF ok
             THEN /\ pc' = [pc EXCEPT ![p] = "export"]
                  /\ UNCHANGED <<resp, failedAt>>
             ELSE Raised(p, ConvertExcept(DecodeError(NoFormat)), "normalize")
    /\ UNCHANGED <<loaded, client, constructions, args, audio, wav,
                   transcription, fs, created, calls, trace>>

\* set_frame_rate, set_channels, set_sample_width, export, then
\* os.unlink(temp_in_path) and the return.  When one of the first four
\* raises, the unlink is not reached.
ExportWav(p) ==
    /\ loaded = "yes"
    /\ pc[p] = "export"
    /\ \/ /\ outcomes' = [outcomes EXCEPT ![p] = Append(@, Answer("export", TRUE))]
          /\ fs' = fs \ {TempIn(p)}
          /\ wav' = [wav EXCEPT ![p] = ExportedWav(audio[p])]
          /\ pc' = [pc EXCEPT ![p] = "transcribe"]
          /\ trace' = [trace EXCEPT ![p] = Append(@, "normalized")]
          /\ UNCHANGED <<resp, failedAt>>
       \/ /\ outcomes' = [outcomes EXCEPT ![p] = Append(@, Answer("export", FALSE))]
          /\ Raised(p, ConvertExcept(EncodeError), "normalize")
          /\ UNCHANGED <<fs, wav, trace>>
    /\ UNCHANGED <<loaded, client, constructions, args, audio, attempts,
                   transcription, created, calls>>

\* A variant that calls the service a second time after a failure.
CallServiceRetrying(p) ==
    /\ loaded = "yes"
    /\ pc[p] = "transcribe"
    /\ created' = [created EXCEPT ![p] = @ \cup {TempWav(p)}]
    /\ calls' = [calls EXCEPT ![p] = Append(@, client)]
    /\ \/ \E r \in ServiceResults :
             /\ outcomes' = [outcomes EXCEPT ![p] = Append(@, Answer("create", r))]
             /\ transcription' = [transcription EXCEPT ![p] = r]
             /\ fs' = fs \ {TempWav(p)}
             /\ pc' = [pc EXCEPT ![p] = "format"]
             /\ trace' = [trace EXCEPT ![p] =
                            IF Len(calls[p]) = 0
                            THEN @ \o <<"transcribe", "transcribed">>
                            ELSE Append(@, "transcribed")]
             /\ UNCHANGED <<resp, failedAt>>
       \/ /\ outcomes' = [outcomes EXCEPT ![p] = Append(@, Answer("create", NoObject))]
          /\ fs' = fs \cup {TempWav(p)}
          /\ trace' = [trace EXCEPT ![p] =
                         IF Len(calls[p]) = 0 THEN Append(@, "transcribe") ELSE @]
          /\ IF Len(calls[p]) = 0
             THEN UNCHANGED <<pc, resp, failedAt>>
             ELSE Raised(p, TranscribeExcept(ServiceError), "transcribe")
          /\ UNCHANGED transcription
    /\ UNCHANGED <<loaded, client, constructions, args, audio, attempts, wav>>

\* transcription = transcribe_audio(wav_data, filename, language): the WAV is
\* written to a temporary file that outlives its with block (delete=False),
\* client.audio.transcriptions.create(...) is called on the file's content,
\* then os.unlink(temp_file_path) and the return.  When the call raises, the
\* unlink is not reached; the except re-raises.
CallService(p) ==
    /\ loaded = "yes"
    /\ pc[p] = "transcribe"
    /\ created' = [created EXCEPT ![p] = @ \cup {TempWav(p)}]
    /\ calls' = [calls EXCEPT ![p] = Append(@, client)]
    /\ \/ \E r \in ServiceResults :
             /\ outcomes' = [outcomes EXCEPT ![p] = Append(@, Answer("create", r))]
             /\ transcription' = [transcription EXCEPT ![p] = r]
             /\ fs' = fs \ {TempWav(p)}
             /\ pc' = [pc EXCEPT ![p] = "format"]
             /\ trace' = [trace EXCEPT ![p] = @ \o <<"transcribe", "transcribed">>]
             /\ UNCHANGED <<resp, failedAt>>
       \/ /\ outcomes' = [outcomes EXCEPT ![p] = Append(@, Answer("create", NoObject))]
          /\ fs' = fs \cup {TempWav(p)}
          /\ trace' = [trace EXCEPT ![p] = Append(@, "transcribe")]
          /\ Raised(p, TranscribeExcept(ServiceError), "transcribe")
          /\ UNCHANGED transcription
    /\ UNCHANGED <<loaded, client, constructions, args, audio, attempts, wav>>

\* The success return; reading transcription.text raises when the object has
\* no such attribute.
FormatResponse(p) ==
    /\ loaded = "yes"
    /\ pc[p] = "format"
    /\ IF "text" \in DOMAIN transcription[p]
       THEN /\ pc' = [pc EXCEPT ![p] = "done"]
            /\ resp' = [resp EXCEPT ![p] = SuccessResponse(transcription[p])]
            /\ trace' = [trace EXCEPT ![p] = Append(@, "formatted")]
            /\ UNCHANGED failedAt
       ELSE /\ Raised(p, Exc("AttributeError", "object has no attribute 'text'"),
                      "format")
            /\ UNCHANGED trace
    /\ UNCHANGED <<loaded, client, constructions, args, audio, attempts, wav,
                   transcription, fs, created, outcomes, calls>>

Next ==
    \/ Import
    \/ \E p \in Procs : MissingSource(p)
    \/ \E p \in Procs : DecodeData(p)
    \/ \E p \in Procs : FetchUrl(p)
    \/ \E p \in Procs : LoadFirst(p)
    \/ \E p \in Procs : LoadAgain(p)
    \/ \E p \in Procs : ExportWav(p)
    \/ \E p \in Procs : CallService(p)
    \/ \E p \in Procs : FormatResponse(p)

Spec == Init /\ [][Next]_vars

\* ----------------------------------------------------------------- claims

SameButUrl(a, b) ==
    /\ DOMAIN a \ {"audio_url"} = DOMAIN b \ {"audio_url"}
    /\ \A k \in DOMAIN a \ {"audio_url"} : a[k] = b[k]

Finished(p) == pc[p] \in {"done", "raised"}

Entered(p, stage) == \E i \in 1..Len(trace[p]) : trace[p][i] = stage

Gets(p) == SelectSeq(outcomes[p], LAMBDA a : a.call = "get")

\* C1.  When an invocation of main has ended, on whatever path, none of the
\* temporary files it created exists any more.
C1_TempFilesReleased ==
    \A p \in Procs : Finished(p) => created[p] \cap fs = {}

\* C2, as stated.  main never ends by raising; what it returns has a
\* statusCode of 200, 400 or 500; the statusCode is 200 exactly when
\* resolution, normalization and transcription all succeeded, and then the
\* body has the keys transcription_text and full_transcription; otherwise the
\* body has the single key error.
C2_ResponseAlways_AsStated ==
    \A p \in Procs :
        /\ pc[p] # "raised"
        /\ pc[p] = "done" =>
              /\ resp[p].statusCode \in {200, 400, 500}
              /\ resp[p].statusCode = 200 <=> Entered(p, "transcribed")
              /\ resp[p].statusCode = 200 =>
                    DOMAIN resp[p].body = {"transcription_text", "full_transcription"}
              /\ resp[p].statusCode # 200 => DOMAIN resp[p].body = {"error"}

\* The guard of some step of main holds for invocation p.
CanStep(p) ==
    /\ loaded = "yes"
    /\ \/ pc[p] = "start" /\ HasNoSource(args[p])
       \/ pc[p] = "start" /\ ~HasNoSource(args[p]) /\ UsesInline(args[p])
       \/ pc[p] = "start" /\ ~HasNoSource(args[p]) /\ ~UsesInline(args[p])
             /\ "audio_url" \in DOMAIN args[p]
       \/ pc[p] \in {"convert", "reload", "export", "transcribe", "format"}

\* C2, amended.  main never ends by raising and, until it has returned, it
\* can take a step; what it returns has a statusCode of 200, 400 or 500; the
\* statusCode is 200 exactly when resolution, normalization, transcription
\* and the reading of the result's text all succeeded, and then the body has
\* the keys transcription_text and full_transcription; otherwise the body
\* has the single key error.
C2_ResponseAlways ==
    \A p \in Procs :
        /\ pc[p] # "raised"
        /\ (loaded = "yes" /\ pc[p] # "done") => CanStep(p)
        /\ pc[p] = "done" =>
              /\ resp[p].statusCode \in {200, 400, 500}
              /\ resp[p].statusCode = 200 <=>
                    (Entered(p, "transcribed") /\ "text" \in DOMAIN transcription[p])
              /\ resp[p].statusCode = 200 =>
                    DOMAIN resp[p].body = {"transcription_text", "full_transcription"}
              /\ resp[p].statusCode # 200 => DOMAIN resp[p].body = {"error"}

\* An invocation whose normalization failed has returned, and another has
\* returned after the service answered with an object without text.
C2_Witness ==
    \E p, q \in Procs :
        /\ pc[p] = "done" /\ failedAt[p] = "normalize"
        /\ pc[q] = "done" /\ failedAt[q] = "format"

\* C3.  A request with neither audio_data nor audio_url is answered 400 with
\* the message "Missing required parameter: either audio_data or audio_url",
\* and at no point of the invocation has an HTTP GET been made, a temporary
\* file created, the audio loaded or the service called.
C3_MissingSource ==
    \A p \in Procs :
        HasNoSource(args[p]) =>
            /\ Gets(p) = <<>> /\ created[p] = {} /\ attempts[p] = <<>>
            /\ calls[p] = <<>> /\ ~Entered(p, "normalize")
            /\ Finished(p) =>
                  /\ pc[p] = "done"
                  /\ resp[p].statusCode = 400
                  /\ resp[p].body =
                       [error |-> <<"Missing required parameter: either audio_data or audio_url">>]

C3_Witness ==
    \E p \in Procs : HasNoSource(args[p]) /\ pc[p] = "done"

\* C4.  When the request has audio_url and no audio_data and the GET answers
\* with a status outside 200..299, main returns 400 with a message that has
\* that status code in it, and neither normalization nor the transcription
\* service is entered.
C4_DownloadFailure ==
    \A p \in Procs :
        \A i \in 1..Len(Gets(p)) :
            LET code == Gets(p)[i].result IN
            ("audio_data" \notin DOMAIN args[p] /\ code # NoStatus /\ code \notin 200..299) =>
                /\ pc[p] = "done"
                /\ resp[p].statusCode = 400
                /\ DOMAIN resp[p].body = {"error"}
                /\ \E k \in 1..Len(resp[p].body.error) :
                      resp[p].body.error[k] = FormatCode(code)
                /\ ~Entered(p, "normalize") /\ attempts[p] = <<>> /\ calls[p] = <<>>

C4_Witness ==
    \E p \in Procs :
        /\ "audio_data" \notin DOMAIN args[p]
        /\ Gets(p) = <<Answer("get", 404)>>
        /\ pc[p] = "done"

\* Well-formed base64 (RFC 4648): quads of alphabet characters, the last one
\* closed by at most two pads.
ValidBase64(s) ==
    /\ Len(s) % 4 = 0
    /\ \A i \in 1..Len(s) : s[i] \in DOMAIN B64Table \cup {"="}
    /\ \A i \in 1..Len(s) : s[i] = "=" => i >= Len(s) - 1
    /\ (Len(s) > 0 /\ s[Len(s) - 1] = "=") => s[Len(s)] = "="

\* C5, as stated.  When audio_data is not valid base64, main returns 400
\* with an error body, and neither normalization nor transcription is
\* entered.
C5_BadBase64_AsStated ==
    \A p \in Procs :
        ("audio_data" \in DOMAIN args[p] /\ ~ValidBase64(args[p]["audio_data"])) =>
            /\ ~Entered(p, "normalize") /\ attempts[p] = <<>> /\ calls[p] = <<>>
            /\ Finished(p) =>
                  /\ pc[p] = "done"
                  /\ resp[p].statusCode = 400
                  /\ DOMAIN resp[p].body = {"error"}

\* C5, amended.  When the decoding of audio_data raises, main returns 500
\* with an error body that holds the decoder's message, and neither
\* normalization nor transcription is entered.
C5_BadBase64 ==
    \A p \in Procs :
        ("audio_data" \in DOMAIN args[p] /\ ~b64decode(args[p]["audio_data"]).ok) =>
            /\ ~Entered(p, "normalize") /\ attempts[p] = <<>> /\ calls[p] = <<>>
            /\ created[p] = {}
            /\ Finished(p) =>
                  /\ pc[p] = "done"
                  /\ resp[p].statusCode = 500
                  /\ resp[p].body =
                       [error |-> <<b64decode(args[p]["audio_data"]).exc.msg>>]

C5_Witness ==
    \E p \in Procs :
        /\ "audio_data" \in DOMAIN args[p]
        /\ args[p]["audio_data"] = <<"/", "/", "=">>
        /\ pc[p] = "done"

\* The message of the exception that ended normalization or transcription.
UnderlyingMessage(p) ==
    IF Entered(p, "transcribe") THEN ServiceError.msg
    ELSE IF Len(attempts[p]) = 2 /\ ~attempts[p][2].ok
         THEN DecodeError(attempts[p][2].format).msg
         ELSE EncodeError.msg

\* C6.  An invocation that ended after its input was resolved and before the
\* transcription call returned (normalization or the call failed) returned
\* 500, and body.error is the message of the exception that failed it.
C6_StageFailure ==
    \A p \in Procs :
        (Finished(p) /\ Entered(p, "resolved") /\ ~Entered(p, "transcribed")) =>
            /\ pc[p] = "done"
            /\ resp[p].statusCode = 500
            /\ resp[p].body = [error |-> <<UnderlyingMessage(p)>>]

\* One invocation ended in normalization, another in the transcription call.
C6_Witness ==
    \E p, q \in Procs :
        /\ pc[p] = "done" /\ failedAt[p] = "normalize"
        /\ Len(attempts[p]) = 2
        /\ pc[q] = "done" /\ failedAt[q] = "transcribe"

StageOrder ==
    << "resolve", "resolved", "normalize", "normalized", "transcribe",
       "transcribed", "formatted" >>

\* C8.  The stages of an invocation are entered and left in the order
\* resolve, normalize, transcribe, format, each at most once and each only
\* after the one before it succeeded; the transcription service is called at
\* most once, and only after normalization returned.
C8_LinearStages ==
    \A p \in Procs :
        /\ Len(trace[p]) <= Len(StageOrder)
        /\ trace[p] = SubSeq(StageOrder, 1, Len(trace[p]))
        /\ Len(calls[p]) <= 1
        /\ Len(calls[p]) = 1 => Entered(p, "normalized")
        /\ Len(calls[p]) =
             Len(SelectSeq(outcomes[p], LAMBDA a : a.call = "create"))
        /\ attempts[p] # <<>> => Entered(p, "resolved")

\* The service call of an invocation failed, and the invocation has returned.
C8_Witness ==
    \E p \in Procs :
        /\ pc[p] = "done" /\ failedAt[p] = "transcribe"
        /\ Len(calls[p]) = 1

\* The lower-cased extension when it is one of the seven, else no format.
ExpectedFormat(filename) ==
    LET ext == StripDots(Lower(SplitExt(filename)))
    IN  IF ext \in AllowedFormats THEN ext ELSE NoFormat

\* C9.  convert_audio_to_wav loads the audio at most twice: first with the
\* lower-cased extension as the format when it is one of the seven, and
\* without a format otherwise; a second time only after the first failed,
\* then exactly once and without a format; when that fails too, main returns
\* 500.
C9_DecodeAttempts ==
    \A p \in Procs :
        /\ Len(attempts[p]) <= 2
        /\ Len(attempts[p]) >= 1 => attempts[p][1].format = ExpectedFormat(Filename(p))
        /\ Len(attempts[p]) = 2 =>
              ~attempts[p][1].ok /\ attempts[p][2].format = NoFormat
        /\ (Len(attempts[p]) = 1 /\ ~attempts[p][1].ok) => pc[p] = "reload"
        /\ (Len(attempts[p]) = 2 /\ ~attempts[p][2].ok) =>
              /\ pc[p] = "done"
              /\ resp[p].statusCode = 500
              /\ ~Entered(p, "normalized")

\* "a.MP3" was loaded as mp3, then without a format, and both failed.
C9_Witness ==
    \E p \in Procs :
        /\ Filename(p) = <<"a", ".", "M", "P", "3">>
        /\ attempts[p] = << [format |-> <<"m", "p", "3">>, ok |-> FALSE],
                            [format |-> NoFormat, ok |-> FALSE] >>
        /\ pc[p] = "done"

\* C10.  For a request with both audio_data and audio_url: no GET is made,
\* what is normalized is the decoding of audio_data, and the response is the
\* one the same request without audio_url gets when the collaborators answer
\* the same.
C10_InlineWins ==
    \A p \in Procs :
        ("audio_data" \in DOMAIN args[p] /\ "audio_url" \in DOMAIN args[p]) =>
            /\ Gets(p) = <<>>
            /\ Entered(p, "normalize") =>
                  /\ b64decode(args[p]["audio_data"]).ok
                  /\ audio[p] = b64decode(args[p]["audio_data"]).bytes
            /\ \A q \in Procs :
                  ( /\ DOMAIN args[q] = DOMAIN args[p] \ {"audio_url"}
                    /\ SameButUrl(args[p], args[q])
                    /\ Finished(p) /\ Finished(q)
                    /\ outcomes[p] = outcomes[q] ) =>
                  /\ pc[p] = pc[q]
                  /\ resp[p] = resp[q]

\* A request with both sources and the same request without audio_url were
\* both transcribed.
C10_Witness ==
    \E p, q \in Procs :
        /\ DOMAIN args[p] = {"audio_data", "audio_url"}
        /\ DOMAIN args[q] = {"audio_data"}
        /\ args[p]["audio_data"] = <<"/", "/", "=", "=">>
        /\ pc[p] = "done" /\ pc[q] = "done"
        /\ resp[p].statusCode = 200 /\ resp[q].statusCode = 200

====
